---- MODULE Spec2Model ----
(***************************************************************************)
(* A model of the AptusPortal client of the aptus_home integration         *)
(* (custom_components/aptus_home/aptus_client.py).                         *)
(*                                                                         *)
(* Python values are records tagged by the field t; every kind of value    *)
(* keeps its payload under a field name of its own, so that values of      *)
(* different kinds are never equal.                                        *)
(*   text strings whose content is only compared    [t |-> "str",   s]     *)
(*   strings the code looks into, as characters     [t |-> "chars", c]     *)
(*   strings the code looks into, as code points    [t |-> "codes", p]     *)
(***************************************************************************)
EXTENDS Integers, Sequences, FiniteSets, TLC

VARIABLES
    username,                    \* self.username
    password,                    \* self.password
    logged_in,                   \* self._logged_in
    request_verification_token,  \* self._request_verification_token
    password_salt,               \* self._password_salt
    session_headers,             \* self.session.headers
    call,                        \* the operation called last, with its arguments
    net,                         \* what the transport answers during that call
    before,                      \* the client's fields when that call started
    sent,                        \* the requests that call put on the transport
    returned,                    \* each _request of that call: what it sent and returned
    result,                      \* what that call returned, or the exception it raised
    enc,                         \* a direct use of _encrypt_password
    hass,                        \* the config entry of the integration and its entities
    clock,                       \* time.time(), in seconds
    flow,                        \* the last step of the config flow
    threads                      \* where each thread that uses the client stands

vars == <<username, password, logged_in, request_verification_token,
          password_salt, session_headers, call, net, before, sent, returned,
          result, enc, hass, clock, flow, threads>>

-----------------------------------------------------------------------------
(* Python values *)

None == [t |-> "None"]
Bool(b) == [t |-> "bool", b |-> b]
Str(s) == [t |-> "str", s |-> s]
Chars(c) == [t |-> "chars", c |-> c]
Codes(p) == [t |-> "codes", p |-> p]
IntVal(n) == [t |-> "int", n |-> n]
Dict(d) == [t |-> "dict", d |-> d]
List(l) == [t |-> "list", l |-> l]
\* an exception leaving a function
Raise(e) == [t |-> "raise", exc |-> e]

IsRaise(v) == v.t = "raise"
IsDict(v) == v.t = "dict"
IsStr(v) == v.t \in {"str", "chars", "codes", "html"}

\* bool(v), as `if v:` and `not v` evaluate it
Truthy(v) ==
    CASE v.t = "None" -> FALSE
      [] v.t = "bool" -> v.b
      [] v.t = "str" -> v.s # ""
      [] v.t = "chars" -> v.c # <<>>
      [] v.t = "codes" -> v.p # <<>>
      [] v.t = "int" -> v.n # 0
      [] v.t = "list" -> v.l # <<>>
      [] v.t = "dict" -> DOMAIN v.d # {}
      [] OTHER -> TRUE

-----------------------------------------------------------------------------
(* int(), str(), ^ and chr() as _encrypt_password and list_available_locks  *)
(* use them                                                                *)

Digits == <<"0", "1", "2", "3", "4", "5", "6", "7", "8", "9">>
IsDigit(ch) == \E i \in 1..10 : Digits[i] = ch
DigitValue(ch) == (CHOOSE i \in 1..10 : Digits[i] = ch) - 1

RECURSIVE LStrip(_)
LStrip(s) == IF s # <<>> /\ Head(s) = " " THEN LStrip(Tail(s)) ELSE s

RECURSIVE RStrip(_)
RStrip(s) ==
    IF s # <<>> /\ s[Len(s)] = " " THEN RStrip(SubSeq(s, 1, Len(s) - 1)) ELSE s

\* digits, single underscores allowed between two digits
IsDecimal(s) ==
    /\ s # <<>>
    /\ IsDigit(s[1]) /\ IsDigit(s[Len(s)])
    /\ \A i \in 1..Len(s) : IsDigit(s[i]) \/ s[i] = "_"
    /\ \A i \in 1..(Len(s) - 1) : ~(s[i] = "_" /\ s[i + 1] = "_")

RECURSIVE DecimalValue(_)
DecimalValue(s) ==
    IF s = <<>> THEN 0
    ELSE IF s[Len(s)] = "_" THEN DecimalValue(SubSeq(s, 1, Len(s) - 1))
    ELSE 10 * DecimalValue(SubSeq(s, 1, Len(s) - 1)) + DigitValue(s[Len(s)])

\* int(s) of a str: surrounding blanks and a sign are accepted;
\* anything else raises ValueError
int(s) ==
    LET body == RStrip(LStrip(s))
        signed == body # <<>> /\ body[1] \in {"+", "-"}
        digits == IF signed THEN Tail(body) ELSE body
    IN  IF ~IsDecimal(digits) THEN Raise("ValueError")
        ELSE IF signed /\ body[1] = "-" THEN IntVal(0 - DecimalValue(digits))
        ELSE IntVal(DecimalValue(digits))

\* str(n) of a non-negative int: its decimal digits
RECURSIVE str(_)
str(n) ==
    IF n < 10 THEN <<Digits[n + 1]>>
    ELSE Append(str(n \div 10), Digits[(n % 10) + 1])

RECURSIVE XorNat(_, _)
XorNat(a, b) ==
    IF a = 0 THEN b
    ELSE IF b = 0 THEN a
    ELSE (((a % 2) + (b % 2)) % 2) + (2 * XorNat(a \div 2, b \div 2))

\* key ^ char_code on Python's unbounded integers; char_code is never negative
Xor(key, char_code) ==
    IF key < 0 THEN (0 - 1) - XorNat((0 - 1) - key, char_code)
    ELSE XorNat(key, char_code)

\* chr(n) raises ValueError outside range(0x110000)
MaxCodePoint == 1114111
ChrOk(n) == 0 <= n /\ n <= MaxCodePoint

DefaultSalt == <<"6", "1", "1">>
DefaultKey == 611

\* a key derivation that falls back to the key 0 (no obfuscation)
EncryptKeyZero(salt_str) ==
    LET k == int(IF ~Truthy(salt_str) THEN <<"0">> ELSE salt_str.c)
    IN  IF IsRaise(k) THEN 0 ELSE k.n

\* _encrypt_password(password_str, salt_str): password_str a sequence of code
\* points, salt_str None or a Chars value
EncryptKey(salt_str) ==
    LET s == IF ~Truthy(salt_str) THEN DefaultSalt ELSE salt_str.c
        k == int(s)
    IN  IF IsRaise(k) THEN DefaultKey ELSE k.n

_encrypt_password(password_str, salt_str) ==
    LET key == EncryptKey(salt_str)
        encrypted == [i \in 1..Len(password_str) |-> Xor(key, password_str[i])]
    IN  IF \E i \in 1..Len(password_str) : ~ChrOk(encrypted[i])
        THEN Raise("ValueError")
        ELSE Codes(encrypted)

-----------------------------------------------------------------------------
(* Headers: a function from header names to values *)

XRW == "X-Requested-With"
XMLHttpRequest == "XMLHttpRequest"

HeaderPop(h, k) == [x \in (DOMAIN h) \ {k} |-> h[x]]
HeaderSet(h, k, v) == [x \in (DOMAIN h) \cup {k} |-> IF x = k THEN v ELSE h[x]]

\* requests merges the headers of a call into the session's: a header of the
\* call wins, a header only the session has is sent too
MergeHeaders(session, request) ==
    [x \in (DOMAIN session) \cup (DOMAIN request) |->
        IF x \in DOMAIN request THEN request[x] ELSE session[x]]

\* the headers __init__ gives the session
InitHeaders == [x \in {"User-Agent"} |-> "Chrome/94.0.4606.81"]

\* the headers of the login-page fetch
fetch_headers ==
    [x \in {"User-Agent", "Accept", "Accept-Language", "Accept-Encoding",
            "Connection", "Upgrade-Insecure-Requests"} |->
        CASE x = "User-Agent" -> "Chrome/97.0.4692.99"
          [] x = "Accept" -> "text/html"
          [] x = "Accept-Language" -> "en-US,en;q=0.9"
          [] x = "Accept-Encoding" -> "gzip, deflate, br"
          [] x = "Connection" -> "keep-alive"
          [] OTHER -> "1"]

-----------------------------------------------------------------------------
(* The transport: requests sent, responses and exceptions received *)

base_url == "https://portal/AptusPortal/"
_make_url(endpoint) == base_url \o endpoint

Req(method, url, headers, params, data, timeout) ==
    [method |-> method, url |-> url, headers |-> headers, params |-> params,
     data |-> data, timeout |-> timeout]

\* a request together with the transport's answer to it
Exch(req, o) == [req |-> req, answer |-> o]

Response(status_code, url, text) ==
    [t |-> "response", status_code |-> status_code, url |-> url, text |-> text]

\* a parsed HTML document: its input elements, its div elements and its text,
\* in document order
Html(inputs, divs, words) ==
    [t |-> "html", inputs |-> inputs, divs |-> divs, words |-> words]

\* BeautifulSoup(text, "html.parser"): a text that is no markup has no elements
BeautifulSoup(text) == IF text.t = "html" THEN text ELSE Html(<<>>, <<>>, <<>>)

\* the exceptions of requests.exceptions; anything else the transport raises
\* is an Exception that is no RequestException
RequestExceptions == {"ConnectionError", "Timeout", "TooManyRedirects", "HTTPError"}
IsRequestException(e) == e \in RequestExceptions

\* response.raise_for_status() raises HTTPError
IsHTTPError(response) == 400 <= response.status_code /\ response.status_code < 600
\* bool(response) is response.ok
ResponseTruthy(response) == ~IsHTTPError(response)

\* needle in haystack, both sequences of words
Contains(haystack, needle) ==
    \E i \in 0..(Len(haystack) - Len(needle)) :
        \A j \in 1..Len(needle) : haystack[i + j] = needle[j]

-----------------------------------------------------------------------------
(* The client's fields, as one record *)

Self ==
    [username |-> username, password |-> password, logged_in |-> logged_in,
     request_verification_token |-> request_verification_token,
     password_salt |-> password_salt, headers |-> session_headers]

\* what a method leaves behind: the client's fields, the value returned or
\* the exception raised, the requests sent with their answers, what each
\* _request returned
Out(self, ret, reqs, rets) ==
    [self |-> self, ret |-> ret, sent |-> reqs, returned |-> rets]

-----------------------------------------------------------------------------
(* _get_login_page_details and login *)

\* soup.find("input", attrs): the first input element with these attributes
FindInput(soup, attrs) ==
    LET hit(i) == \A a \in DOMAIN attrs : soup.inputs[i][a] = attrs[a]
    IN  IF \E i \in 1..Len(soup.inputs) : hit(i)
        THEN soup.inputs[CHOOSE i \in 1..Len(soup.inputs) :
                            hit(i) /\ \A j \in 1..(i - 1) : ~hit(j)]
        ELSE None

\* a page fetch that keeps the token and salt the client already holds
get_login_page_details_once(self, o) ==
    LET req == Req("GET", _make_url("Account/Login"),
                   MergeHeaders(self.headers, fetch_headers), None, None, IntVal(20))
        token_input == FindInput(BeautifulSoup(o.text),
                                 [name |-> "__RequestVerificationToken"])
    IN  IF IsRaise(o)
        THEN Out(self, IF IsRequestException(o.exc) THEN Bool(FALSE) ELSE o,
                 <<Exch(req, o)>>, <<>>)
        ELSE IF IsHTTPError(o) \/ token_input = None
        THEN Out(self, Bool(FALSE), <<Exch(req, o)>>, <<>>)
        ELSE IF self.request_verification_token # None
        THEN Out(self, Bool(TRUE), <<Exch(req, o)>>, <<>>)
        ELSE Out([self EXCEPT !.request_verification_token = token_input.value,
                              !.password_salt = Chars(DefaultSalt)],
                 Bool(TRUE), <<Exch(req, o)>>, <<>>)

_get_login_page_details(self, o) ==
    LET req == Req("GET", _make_url("Account/Login"),
                   MergeHeaders(self.headers, fetch_headers), None, None, IntVal(20))
        soup == BeautifulSoup(o.text)
        token_input == FindInput(soup, [name |-> "__RequestVerificationToken"])
        salt_input == FindInput(soup, [id |-> "PasswordSalt", name |-> "PasswordSalt"])
        found(input) == input # None /\ Truthy(input.value)
    IN  IF IsRaise(o)
        THEN IF IsRequestException(o.exc)
             THEN Out(self, Bool(FALSE), <<Exch(req, o)>>, <<>>)
             ELSE Out(self, o, <<Exch(req, o)>>, <<>>)
        ELSE IF IsHTTPError(o)
        THEN Out(self, Bool(FALSE), <<Exch(req, o)>>, <<>>)
        ELSE IF ~found(token_input)
        THEN Out(self, Bool(FALSE), <<Exch(req, o)>>, <<>>)
        ELSE Out([self EXCEPT
                    !.request_verification_token = token_input.value,
                    !.password_salt = IF found(salt_input) THEN salt_input.value
                                      ELSE Chars(DefaultSalt)],
                 Bool(TRUE), <<Exch(req, o)>>, <<>>)

LoginPath == <<"Account", "Login">>
\* the markers of a logged-in page, each one word of the body
LoginMarkers == {<<"Log ud">>, <<"L&#229;s">>, <<"Lås">>}

\* a submission judged by the markers of the body alone, wherever the portal
\* ended up
LoginPostByMarker(self, fetched, encrypted_password, o) ==
    IF IsRaise(encrypted_password) THEN Out(self, encrypted_password, fetched, <<>>)
    ELSE IF IsRaise(o) /\ ~IsRequestException(o.exc)
    THEN Out(self, o,
             Append(fetched, Exch(Req("POST", _make_url("Account/Login"),
                                      self.headers, None, None, IntVal(15)), o)),
             <<>>)
    ELSE IF ~IsRaise(o) /\ ~IsHTTPError(o)
            /\ \E marker \in LoginMarkers : Contains(BeautifulSoup(o.text).words, marker)
    THEN Out([self EXCEPT !.logged_in = TRUE,
                          !.headers = HeaderSet(self.headers, XRW, XMLHttpRequest)],
             Bool(TRUE),
             Append(fetched, Exch(Req("POST", _make_url("Account/Login"),
                                      self.headers, None, None, IntVal(15)), o)),
             <<>>)
    ELSE Out([self EXCEPT !.logged_in = FALSE], Bool(FALSE),
             Append(fetched, Exch(Req("POST", _make_url("Account/Login"),
                                      self.headers, None, None, IntVal(15)), o)),
             <<>>)

\* login from the submission on: the request sent and the verdict on the
\* transport's answer o to it
LoginPost(self, fetched, encrypted_password, o) ==
    LET payload == [__RequestVerificationToken |-> self.request_verification_token,
                    DeviceType |-> Str("PC"),
                    DesktopSelected |-> Str("true"),
                    UserName |-> self.username,
                    Password |-> Str(""),
                    PwEnc |-> encrypted_password,
                    PasswordSalt |-> self.password_salt]
        post_headers ==
            HeaderSet(HeaderSet(HeaderPop(self.headers, XRW),
                                "Content-Type", "application/x-www-form-urlencoded"),
                      "Referer", _make_url("Account/Login"))
        req == Req("POST", _make_url("Account/Login"),
                   MergeHeaders(self.headers, post_headers),
                   Dict([ReturnUrl |-> Str("/AptusPortal/")]), Dict(payload),
                   IntVal(15))
        reqs == Append(fetched, Exch(req, o))
        failed == Out([self EXCEPT !.logged_in = FALSE], Bool(FALSE), reqs, <<>>)
    IN  IF IsRaise(encrypted_password)
        THEN Out(self, encrypted_password, fetched, <<>>)
        ELSE IF IsRaise(o)
        THEN IF IsRequestException(o.exc) THEN failed ELSE Out(self, o, reqs, <<>>)
        ELSE IF IsHTTPError(o) THEN failed
        ELSE IF Contains(o.url, LoginPath) THEN failed
        ELSE IF \E marker \in LoginMarkers : Contains(BeautifulSoup(o.text).words, marker)
        THEN Out([self EXCEPT !.logged_in = TRUE,
                              !.headers = HeaderSet(self.headers, XRW, XMLHttpRequest)],
                 Bool(TRUE), reqs, <<>>)
        ELSE failed

\* a login that submits whatever the page fetch returned
LoginFetchedAnyway(page, o) ==
    IF IsRaise(page.ret) THEN page
    ELSE LoginPost(page.self, page.sent,
                   _encrypt_password(page.self.password.p, page.self.password_salt), o)

\* login once _get_login_page_details has returned page
LoginFetched(page, o) ==
    IF IsRaise(page.ret) THEN page
    ELSE IF ~page.ret.b THEN page
    ELSE IF ~Truthy(page.self.request_verification_token)
            \/ ~Truthy(page.self.password_salt)
    THEN Out(page.self, Bool(FALSE), page.sent, <<>>)
    ELSE LoginPost(page.self, page.sent,
                   _encrypt_password(page.self.password.p, page.self.password_salt), o)

\* a login that marks the session authenticated before it fetches the page
LoginStoredEager(self, o) ==
    IF ~Truthy(self.username) \/ ~Truthy(self.password)
    THEN Out(self, Bool(FALSE), <<>>, <<>>)
    ELSE LoginFetched(_get_login_page_details([self EXCEPT !.logged_in = TRUE], o[1]),
                      o[2])

\* a login that looks at the stored credentials only after it fetched the page
LoginStoredLate(self, o) ==
    IF ~Truthy(self.username) \/ ~Truthy(self.password)
    THEN Out(_get_login_page_details(self, o[1]).self, Bool(FALSE),
             _get_login_page_details(self, o[1]).sent, <<>>)
    ELSE LoginFetched(_get_login_page_details(self, o[1]), o[2])

\* login once the arguments are stored
LoginStored(self, o) ==
    IF ~Truthy(self.username) \/ ~Truthy(self.password)
    THEN Out(self, Bool(FALSE), <<>>, <<>>)
    ELSE LoginFetched(_get_login_page_details(self, o[1]), o[2])

\* login(username, password); o[1] answers the page fetch, o[2] the submission
login(self, u, p, o) ==
    LoginStored([self EXCEPT !.username = IF Truthy(u) THEN u ELSE @,
                             !.password = IF Truthy(p) THEN p ELSE @], o)

-----------------------------------------------------------------------------
(* _request *)

\* the bodies the portal's endpoints answer with, and json.loads of them
TextOk == Str("{\"StatusText\": \"ok\"}")
TextError == Str("{\"errorMessage\": \"denied\", \"HeaderStatusText\": \"Fejl\"}")
TextList == Str("[1]")
TextPage == Html(<<>>, <<>>, <<"Log", "ind">>)

json(text) ==
    CASE text = TextOk -> Dict([StatusText |-> Str("ok")])
      [] text = TextError ->
            Dict([errorMessage |-> Str("denied"), HeaderStatusText |-> Str("Fejl")])
      [] text = TextList -> List(<<IntVal(1)>>)
      [] OTHER -> Raise("JSONDecodeError")

\* d.get(key, default) of a dict
Get(d, key, default) == IF key \in DOMAIN d.d THEN d.d[key] ELSE default

NotLoggedIn ==
    Dict([error |-> Str("NotLoggedIn"), message |-> Str("User is not logged in.")])

\* endpoint.startswith("Account/Login"), over the endpoints the client uses
StartsWithLogin(endpoint) == endpoint = "Account/Login"

\* a decoding that lets the decode error out
ResponseBodyRaising(o, expect_json) == IF expect_json THEN json(o.text) ELSE o.text

\* what _request returns for a response that passed raise_for_status
ResponseBody(o, expect_json) ==
    IF expect_json
    THEN IF IsRaise(json(o.text))
         THEN Dict([raw_text |-> o.text, error |-> Str("JSONDecodeError")])
         ELSE json(o.text)
    ELSE o.text

\* what _request makes of the transport's answer o
RequestOutcome(o, expect_json) ==
    LET decoded == json(o.text)
    IN  IF IsRaise(o)
        THEN IF IsRequestException(o.exc)
             THEN Dict([error |-> Str("RequestException"), message |-> Str(o.exc)])
             ELSE o
        ELSE IF IsHTTPError(o)
        THEN IF IsRaise(decoded) \/ ~IsDict(decoded)
             THEN Dict([error |-> Str("HTTPError"),
                        message |-> Str("HTTPError"),
                        raw_response |-> IF ResponseTruthy(o) THEN o.text ELSE None,
                        http_code |-> IF ResponseTruthy(o) THEN IntVal(o.status_code)
                                      ELSE None])
             ELSE Dict([error |-> Str("APIError"),
                        message |-> Get(decoded, "errorMessage", o.text),
                        status_text |-> Get(decoded, "HeaderStatusText", Str("")),
                        http_code |-> IntVal(o.status_code)])
        ELSE ResponseBody(o, expect_json)

\* a _request without the guard of its first lines
request_unguarded(self, method, endpoint, params, data, expect_json, o) ==
    [ret |-> RequestOutcome(o, expect_json),
     sent |-> <<Exch(Req(method, _make_url(endpoint),
                         MergeHeaders(self.headers,
                                      HeaderSet(self.headers, XRW, XMLHttpRequest)),
                         params, data, IntVal(15)), o)>>,
     expect_json |-> expect_json, headers |-> self.headers]

\* a _request that sets the marker on the session's headers, not on a copy
request_sharing(self, method, endpoint, params, data, expect_json, o) ==
    IF ~self.logged_in /\ ~StartsWithLogin(endpoint)
    THEN [ret |-> NotLoggedIn, sent |-> <<>>, expect_json |-> expect_json,
          headers |-> self.headers]
    ELSE [ret |-> RequestOutcome(o, expect_json),
          sent |-> <<Exch(Req(method, _make_url(endpoint),
                              HeaderSet(self.headers, XRW, XMLHttpRequest),
                              params, data, IntVal(15)), o)>>,
          expect_json |-> expect_json,
          headers |-> HeaderSet(self.headers, XRW, XMLHttpRequest)]

\* _request(method, endpoint, params, data, expect_json); o answers its call.
\* ret is what it returns or raises, sent the request it made, if any, and
\* headers the session's default headers once it is done: current_headers is
\* a copy of them
_request(self, method, endpoint, params, data, expect_json, o) ==
    LET current_headers == HeaderSet(self.headers, XRW, XMLHttpRequest)
        req == Req(method, _make_url(endpoint),
                   MergeHeaders(self.headers, current_headers), params, data,
                   IntVal(15))
    IN  IF ~self.logged_in /\ ~StartsWithLogin(endpoint)
        THEN [ret |-> NotLoggedIn, sent |-> <<>>, expect_json |-> expect_json,
              headers |-> self.headers]
        ELSE [ret |-> RequestOutcome(o, expect_json), sent |-> <<Exch(req, o)>>,
              expect_json |-> expect_json, headers |-> self.headers]

-----------------------------------------------------------------------------
(* logout and the lock actuators *)

\* a logout that clears the session only when the log-off request succeeded
logout_keeping(self, o) ==
    IF IsRaise(o) \/ IsHTTPError(o)
    THEN Out(self, None,
             <<Exch(Req("GET", _make_url("Account/LogOff"),
                        MergeHeaders(self.headers,
                                     HeaderSet(fetch_headers, "Referer", _make_url("Lock"))),
                        None, None, IntVal(20)), o)>>, <<>>)
    ELSE Out([self EXCEPT !.logged_in = FALSE, !.request_verification_token = None,
                          !.password_salt = None],
             o.text,
             <<Exch(Req("GET", _make_url("Account/LogOff"),
                        MergeHeaders(self.headers,
                                     HeaderSet(fetch_headers, "Referer", _make_url("Lock"))),
                        None, None, IntVal(20)), o)>>, <<>>)

\* a logout that forgets the token and keeps the salt
logout_token_only(self, o) ==
    Out([self EXCEPT !.logged_in = FALSE, !.request_verification_token = None],
        IF IsRaise(o) \/ IsHTTPError(o) THEN None ELSE o.text,
        <<Exch(Req("GET", _make_url("Account/LogOff"),
                   MergeHeaders(self.headers,
                                HeaderSet(fetch_headers, "Referer", _make_url("Lock"))),
                   None, None, IntVal(20)), o)>>, <<>>)

logout(self, o) ==
    LET logout_headers == HeaderSet(fetch_headers, "Referer", _make_url("Lock"))
        req == Req("GET", _make_url("Account/LogOff"),
                   MergeHeaders(self.headers, logout_headers), None, None,
                   IntVal(20))
        cleared == [self EXCEPT !.logged_in = FALSE,
                                !.request_verification_token = None,
                                !.password_salt = None]
    IN  IF IsRaise(o) \/ IsHTTPError(o)
        THEN Out(cleared, None, <<Exch(req, o)>>, <<>>)
        ELSE Out(cleared, o.text, <<Exch(req, o)>>, <<>>)

\* `result if isinstance(result, dict) else {}`
DictOrEmpty(r) == IF IsDict(r) THEN r ELSE Dict(<<>>)

\* the client once its _request r is done
After(self, r) == [self EXCEPT !.headers = r.headers]

\* `return result if isinstance(result, dict) else {}`, r the _request made
Actuated(self, r) ==
    Out(After(self, r), IF IsRaise(r.ret) THEN r.ret ELSE DictOrEmpty(r.ret), r.sent, <<r>>)

\* `return result if isinstance(result, str) else ""`
Primed(self, r) ==
    Out(After(self, r),
        IF IsRaise(r.ret) THEN r.ret ELSE IF IsStr(r.ret) THEN r.ret ELSE Str(""),
        r.sent, <<r>>)

set_lock_status_temp_data(self, o) ==
    Primed(self, _request(self, "GET", "Lock/SetLockStatusTempData", None, None,
                          FALSE, o))

\* a status query that gives up when the priming request brought no text
DoormanStatusPrimedOnly(self, primed, r) ==
    IF IsRaise(primed.ret) THEN primed
    ELSE IF primed.ret = Str("") THEN Out(primed.self, None, primed.sent, primed.returned)
    ELSE Out(After(primed.self, r),
             IF IsRaise(r.ret) THEN r.ret ELSE IF IsDict(r.ret) THEN r.ret ELSE None,
             primed.sent \o r.sent, primed.returned \o <<r>>)

\* get_doorman_lock_status after its guard: primed is what
\* set_lock_status_temp_data did, r the status _request
DoormanStatus(self, primed, r) ==
    IF IsRaise(primed.ret) THEN primed
    ELSE Out(After(primed.self, r),
             IF IsRaise(r.ret) THEN r.ret ELSE IF IsDict(r.ret) THEN r.ret ELSE None,
             primed.sent \o r.sent, primed.returned \o <<r>>)

\* o[1] answers the priming request, o[2] the status request
get_doorman_lock_status(self, o) ==
    IF ~self.logged_in THEN Out(self, None, <<>>, <<>>)
    ELSE DoormanStatus(self, set_lock_status_temp_data(self, o[1]),
                       _request(self, "GET", "LockAsync/DoormanLockStatus", None,
                                None, TRUE, o[2]))

poll_ongoing_call(self, o) ==
    Actuated(self, _request(self, "GET", "Lock/PollOngingCall", None, None, TRUE, o))

lock_doorman_lock(self, o) ==
    Actuated(self, _request(self, "GET", "Lock/LockDoormanLock", None, None, TRUE, o))

unlock_doorman_lock(self, code, o) ==
    Actuated(self, _request(self, "GET", "Lock/UnlockDoormanLock",
                            Dict([code |-> code]), None, TRUE, o))

UnlockEndpoint(lock_id) == "Lock/UnlockEntryDoor/" \o ToString(lock_id)

\* a retry that sends its request once more
UnlockRetriedAgain(first, relogin, second) ==
    Out(After(relogin.self, second),
        IF IsRaise(second.ret) THEN second.ret ELSE DictOrEmpty(second.ret),
        first.sent \o relogin.sent \o second.sent \o second.sent,
        <<first, second, second>>)

\* the `except Exception` branch: relogin is what login did, second the
\* _request made after it
UnlockRetried(first, relogin, second) ==
    IF IsRaise(relogin.ret)
    THEN Out(relogin.self, relogin.ret, first.sent \o relogin.sent, <<first>>)
    ELSE Out(After(relogin.self, second),
             IF IsRaise(second.ret) THEN second.ret ELSE DictOrEmpty(second.ret),
             first.sent \o relogin.sent \o second.sent, <<first, second>>)

UnlockRetry(first, relogin, lock_id, o) ==
    UnlockRetried(first, relogin,
                  _request(relogin.self, "GET", UnlockEndpoint(lock_id), None, None,
                           TRUE, o))

\* unlock_entrance_door once the first _request is made
UnlockFirst(self, first, lock_id, o) ==
    IF ~IsRaise(first.ret)
    THEN Out(After(self, first), DictOrEmpty(first.ret), first.sent, <<first>>)
    ELSE UnlockRetry(first,
                     login(After(self, first), self.username, self.password,
                           <<o[2], o[3]>>),
                     lock_id, o[4])

\* o[1] answers the first attempt; when that attempt raises, o[2] and o[3]
\* answer the login and o[4] the second attempt
unlock_entrance_door(self, lock_id, o) ==
    UnlockFirst(self, _request(self, "GET", UnlockEndpoint(lock_id), None, None,
                               TRUE, o[1]),
                lock_id, o)

-----------------------------------------------------------------------------
(* list_available_locks *)

\* s.split(sep)[-1]: what follows the last sep of s
RECURSIVE LastSegment(_, _)
LastSegment(s, sep) ==
    IF \E i \in 1..Len(s) : s[i] = sep
    THEN LastSegment(SubSeq(s, (CHOOSE i \in 1..Len(s) : s[i] = sep
                                   /\ \A j \in 1..(i - 1) : s[j] # sep) + 1, Len(s)),
                     sep)
    ELSE s

StartsWith(s, prefix) ==
    Len(s) >= Len(prefix) /\ SubSeq(s, 1, Len(prefix)) = prefix

EntrancePrefix ==
    <<"e", "n", "t", "r", "a", "n", "c", "e", "D", "o", "o", "r", "_">>

\* s.strip()
Strip(s) == RStrip(LStrip(s))

\* one lock card of the page: the record appended for it, "skip" where the
\* loop continues, or the exception that leaves the loop
LockRecord(card) ==
    LET id == IF card.id = None THEN <<>> ELSE card.id.c
        lock_id == int(LastSegment(id, "_"))
        inner == SelectSeq(card.contents, LAMBDA n : n.tag = "div")
        name_div == inner[1]
        first == name_div.contents[1]
        spans == SelectSeq(name_div.contents, LAMBDA n : n.tag = "span")
        main_name == Strip(first.text)
        sub_name == IF spans = <<>> THEN <<>> ELSE Strip(spans[1].text)
        full_name == IF sub_name # <<>>
                     THEN main_name \o <<" ", "(">> \o sub_name \o <<")">>
                     ELSE main_name
    IN  IF ~StartsWith(id, EntrancePrefix) THEN Str("skip")
        ELSE IF IsRaise(lock_id) THEN Str("skip")
        ELSE IF inner = <<>> THEN Raise("AttributeError")
        ELSE IF name_div.contents = <<>> THEN Raise("IndexError")
        ELSE IF first.tag # "text" THEN Raise("TypeError")
        ELSE Dict([id |-> lock_id, name |-> Chars(full_name), raw_id_attr |-> card.id])

\* the loop over the lock cards: the list built, or the exception raised
RECURSIVE ScrapeLocks(_, _)
Scraped(rec, lock_cards, available_locks) ==
    IF IsRaise(rec) THEN rec
    ELSE IF rec = Str("skip") THEN ScrapeLocks(Tail(lock_cards), available_locks)
    ELSE ScrapeLocks(Tail(lock_cards), Append(available_locks, rec))

ScrapeLocks(lock_cards, available_locks) ==
    IF lock_cards = <<>> THEN List(available_locks)
    ELSE Scraped(LockRecord(Head(lock_cards)), lock_cards, available_locks)

\* soup.find_all("div", class_="lockCard")
FindLockCards(soup) == SelectSeq(soup.divs, LAMBDA d : "lockCard" \in d.class)

\* list_available_locks once the marker is popped from the session's headers
Listed(self, original_xrw, o) ==
    LET req == Req("GET", _make_url("Lock"), self.headers, None, None, None)
        restored == IF original_xrw # ""
                    THEN [self EXCEPT !.headers = HeaderSet(self.headers, XRW,
                                                             original_xrw)]
                    ELSE self
    IN  IF IsRaise(o) THEN Out(self, o, <<Exch(req, o)>>, <<>>)
        ELSE Out(restored, ScrapeLocks(FindLockCards(BeautifulSoup(o.text)), <<>>),
                 <<Exch(req, o)>>, <<>>)

\* a listing that leaves the marker where it is
PoppedNever(self) == self

\* `self.session.headers.pop("X-Requested-With", None)`: the client after it
Popped(self) == [self EXCEPT !.headers = HeaderPop(self.headers, XRW)]
\* and what it returns, "" standing for None
OriginalXrw(self) == IF XRW \in DOMAIN self.headers THEN self.headers[XRW] ELSE ""

list_available_locks(self, o) ==
    IF ~self.logged_in THEN Out(self, None, <<>>, <<>>)
    ELSE Listed(Popped(self), OriginalXrw(self), o)

-----------------------------------------------------------------------------
(* The inputs: arguments of the calls and answers of the portal *)

\* the longest lock page, in lock cards
MaxCards == 2
\* the longest password given to _encrypt_password directly
MaxPasswordLen == 2

Alice == Str("alice")
\* "pw"
Secret == Codes(<<112, 119>>)
Usernames == {None, Alice}
Passwords == {None, Secret}
LockIds == {7, 42}
DoormanCodes == {Str("1234")}

HomeUrl == <<"AptusPortal">>
LoginUrl == <<"AptusPortal", "Account", "Login">>

TokenInput(value) ==
    [name |-> "__RequestVerificationToken", id |-> "", value |-> value]
SaltInput(value) == [name |-> "PasswordSalt", id |-> "PasswordSalt", value |-> value]

PageA == Html(<<TokenInput(Str("tokA")), SaltInput(Chars(<<"7">>))>>, <<>>, <<"Log", "ind">>)
PageB == Html(<<TokenInput(Str("tokB"))>>, <<>>, <<"Log", "ind">>)
PageNoToken == Html(<<SaltInput(Chars(<<"7">>))>>, <<>>, <<"Log", "ind">>)
PageEmptyToken ==
    Html(<<TokenInput(Str("")), SaltInput(Chars(<<"7">>))>>, <<>>, <<"Log", "ind">>)
PageBigSalt ==
    Html(<<TokenInput(Str("tokA")),
           SaltInput(Chars(<<"2", "0", "9", "7", "1", "5", "2">>))>>,
         <<>>, <<"Log", "ind">>)
PageHome == Html(<<>>, <<>>, <<"Velkommen", "Log ud">>)

ConnectionError == Raise("ConnectionError")
TooManyRedirects == Raise("TooManyRedirects")
\* an exception that is no RequestException
OtherException == Raise("Exception")

PageAnswers ==
    {Response(200, LoginUrl, PageA), Response(200, LoginUrl, PageB),
     Response(200, LoginUrl, PageNoToken), Response(200, LoginUrl, PageEmptyToken),
     Response(200, LoginUrl, PageBigSalt), Response(500, HomeUrl, TextPage),
     ConnectionError, TooManyRedirects, OtherException}

PostAnswers ==
    {Response(200, HomeUrl, PageHome), Response(200, HomeUrl, TextPage),
     Response(200, LoginUrl, PageHome), Response(500, HomeUrl, PageHome),
     ConnectionError, OtherException}

\* the last response is the login page, served after a redirect because the
\* portal no longer accepts the session
ApiAnswers ==
    {Response(200, HomeUrl, TextOk), Response(200, HomeUrl, TextList),
     Response(200, HomeUrl, TextPage), Response(500, HomeUrl, TextError),
     Response(500, HomeUrl, TextPage), ConnectionError, OtherException,
     Response(200, LoginUrl, PageA)}

\* the answers to Lock/SetLockStatusTempData
PrimeAnswers ==
    {Response(200, HomeUrl, TextPage), Response(500, HomeUrl, TextPage),
     ConnectionError, OtherException}

LogoutAnswers ==
    {Response(200, LoginUrl, PageA), Response(500, HomeUrl, TextPage),
     ConnectionError, TooManyRedirects, OtherException}

Text(chars) == [tag |-> "text", text |-> chars]
Span(chars) == [tag |-> "span", text |-> chars]
Div(contents) == [tag |-> "div", contents |-> contents]
Card(class, id, contents) ==
    [tag |-> "div", class |-> class, id |-> id, contents |-> contents]

Entrance(suffix) == Chars(EntrancePrefix \o suffix)

CardMain ==
    Card({"lockCard"}, Entrance(<<"4", "2">>),
         <<Div(<<Text(<<"M", " ">>), Span(<<"S">>)>>)>>)
CardBack ==
    Card({"lockCard", "open"}, Entrance(<<"7">>), <<Div(<<Text(<<" ", "B">>)>>)>>)
CardNonNumeric ==
    Card({"lockCard"}, Entrance(<<"a", "b", "c">>), <<Div(<<Text(<<"G">>)>>)>>)
CardDoorman ==
    Card({"lockCard"},
         Chars(<<"d", "o", "o", "r", "m", "a", "n", "L", "o", "c", "k", "_", "7">>),
         <<Div(<<Text(<<"D">>)>>)>>)
\* an entrance card without the div that holds its name
CardBare == Card({"lockCard"}, Entrance(<<"9">>), <<>>)
\* a div that is no lock card
CardMenu == Card({"menuCard"}, Entrance(<<"5">>), <<Div(<<Text(<<"X">>)>>)>>)
\* a lock card without an id
CardNoId == Card({"lockCard"}, None, <<Div(<<Text(<<"N">>)>>)>>)
\* an entrance card whose id ends with the prefix
CardNoSuffix == Card({"lockCard"}, Entrance(<<>>), <<Div(<<Text(<<"E">>)>>)>>)

LockCards ==
    {CardMain, CardBack, CardNonNumeric, CardDoorman, CardBare, CardMenu, CardNoId,
     CardNoSuffix}

LockPage(cards) == Response(200, HomeUrl, Html(<<>>, cards, <<"Log ud">>))

\* every lock page of up to MaxCards cards
LockPages == UNION {[1..n -> LockCards] : n \in 0..MaxCards}

\* the answers to the lock listing while the client is in use
ListAnswers ==
    {LockPage(<<>>), LockPage(<<CardMain, CardDoorman>>), LockPage(<<CardBare>>),
     Response(200, LoginUrl, PageA), Response(500, HomeUrl, TextPage),
     ConnectionError, OtherException}

-----------------------------------------------------------------------------
(* The client in use: one action for each public method *)

NoCall == [op |-> "__init__", args |-> <<>>]
Snapshot ==
    [logged_in |-> logged_in,
     request_verification_token |-> request_verification_token,
     password_salt |-> password_salt, headers |-> session_headers]

NoEnc == [stage |-> "idle"]

\* a config entry that is not set up: no runtime data, no platform forwarded,
\* no entity; login is what the client's login returned to the last setup and
\* setup what that setup returned or raised, unlocked what
\* unlock_entrance_door returned to the last async_unlock
NoEntry ==
    [runtime_data |-> None, forwarded |-> {}, entities |-> <<>>, login |-> None,
     setup |-> None, unlocked |-> None]

\* no step of the config flow made yet
NoFlow == [login |-> None, validated |-> None, step |-> None]

\* the threads that may use the client, none of them in a call
Threads == {1, 2}
Idle == [pc |-> "idle", original_xrw |-> "", ret |-> None, overlapped |-> FALSE]
NoThreads == [t \in Threads |-> Idle]

\* AptusClient(base_url) and AptusClient(base_url, username, password)
Constructed ==
    /\ \/ username = None /\ password = None
       \/ username = Alice /\ password = Secret
    /\ logged_in = FALSE
    /\ request_verification_token = None
    /\ password_salt = None
    /\ session_headers = InitHeaders
    /\ call = NoCall
    /\ net = <<>>
    /\ sent = <<>>
    /\ returned = <<>>
    /\ result = None
    /\ before = Snapshot
    /\ hass = NoEntry
    /\ clock = 0
    /\ flow = NoFlow
    /\ threads = NoThreads

Init == Constructed /\ enc = NoEnc

\* the call op ends as r says
Logged(op, args, r) ==
    /\ username' = r.self.username
    /\ password' = r.self.password
    /\ logged_in' = r.self.logged_in
    /\ request_verification_token' = r.self.request_verification_token
    /\ password_salt' = r.self.password_salt
    /\ session_headers' = r.self.headers
    /\ call' = [op |-> op, args |-> args]
    /\ before' = Snapshot
    /\ sent' = [i \in 1..Len(r.sent) |-> r.sent[i].req]
    /\ net' = [i \in 1..Len(r.sent) |-> r.sent[i].answer]
    /\ returned' = r.returned
    /\ result' = r.ret

\* a call made on the client directly
Finish(op, args, r) ==
    Logged(op, args, r) /\ UNCHANGED <<enc, hass, clock, flow, threads>>

\* the client's fields after __init__
Fresh ==
    [username |-> None, password |-> None, logged_in |-> FALSE,
     request_verification_token |-> None, password_salt |-> None,
     headers |-> InitHeaders]

\* AptusClient(base_url, username, password) with the data of a config entry
Client(data) == [Fresh EXCEPT !.username = data.username, !.password = data.password]

\* AptusHomeLock(client, lock_info)
AptusHomeLock(lock_info) ==
    [lock_info |-> lock_info, name |-> lock_info.d.name,
     unique_id |-> lock_info.d.id, lock_id |-> lock_info.d.id,
     is_locked |-> None, unlock_time |-> None]

\* the entities the lock platform adds for what list_available_locks returned
\* or raised
LockEntities(locks_data) ==
    IF locks_data.t = "list"
    THEN [i \in 1..Len(locks_data.l) |-> AptusHomeLock(locks_data.l[i])]
    ELSE <<>>

\* what a handler of the integration leaves behind: out for the client and
\* the transport, entry for the config entry
Handled(out, entry) == [out |-> out, entry |-> entry]

\* async_setup_entry after the login returned true: the client is stored and
\* the lock platform set up, listed being its list_available_locks
SetupForwarded(logged, listed) ==
    Handled(Out(listed.self, Bool(TRUE), logged.sent \o listed.sent, <<>>),
            [runtime_data |-> Str("client"), forwarded |-> {"lock"},
             entities |-> LockEntities(listed.ret), login |-> logged.ret,
             setup |-> Bool(TRUE), unlocked |-> None])

\* a setup that does not look at what login returned
SetupIgnoringLogin(logged, o) ==
    IF IsRaise(logged.ret)
    THEN Handled(Out(logged.self, Raise("ConfigEntryNotReady"), logged.sent, <<>>),
                 [NoEntry EXCEPT !.login = logged.ret,
                                 !.setup = Raise("ConfigEntryNotReady")])
    ELSE SetupForwarded(logged, list_available_locks(logged.self, o[3]))

\* async_setup_entry once client.login is done
SetupLoggedIn(logged, o) ==
    IF IsRaise(logged.ret) \/ ~logged.ret.b
    THEN Handled(Out(logged.self, Raise("ConfigEntryNotReady"), logged.sent, <<>>),
                 [NoEntry EXCEPT !.login = logged.ret,
                                 !.setup = Raise("ConfigEntryNotReady")])
    ELSE SetupForwarded(logged, list_available_locks(logged.self, o[3]))

\* async_setup_entry(hass, entry); o[1] and o[2] answer the login, o[3] the
\* lock listing of the platform
async_setup_entry(data, o) ==
    SetupLoggedIn(login(Client(data), None, None, o), o)

\* async_unload_entry(hass, entry): logged_out is the client's logout, if made
Unloaded(entry, logged_out) ==
    Handled(Out(logged_out.self, Bool(TRUE), logged_out.sent, <<>>),
            [entry EXCEPT !.forwarded = {}, !.entities = <<>>])

async_unload_entry(self, entry, o) ==
    IF Truthy(entry.runtime_data) THEN Unloaded(entry, logout(self, o))
    ELSE Unloaded(entry, Out(self, None, <<>>, <<>>))

\* self._unlock_duration, in seconds
unlock_duration == 5

\* AptusHomeLock.async_update when time.time() is now
async_update(entity, now) ==
    IF entity.unlock_time # None
    THEN IF now - entity.unlock_time.n < unlock_duration
         THEN [entity EXCEPT !.is_locked = Bool(FALSE)]
         ELSE [entity EXCEPT !.is_locked = Bool(TRUE), !.unlock_time = None]
    ELSE [entity EXCEPT !.is_locked = Bool(TRUE)]

\* an async_unlock that does not look at the outcome
async_unlock_always(entity, outcome, now) ==
    IF IsRaise(outcome) THEN entity
    ELSE [entity EXCEPT !.unlock_time = IntVal(now), !.is_locked = Bool(FALSE)]

\* AptusHomeLock.async_unlock when time.time() is now: the entity after it,
\* outcome being what unlock_entrance_door returned or raised
async_unlock(entity, outcome, now) ==
    IF IsRaise(outcome) THEN entity
    ELSE IF Truthy(Get(outcome, "error", None)) THEN entity
    ELSE [entity EXCEPT !.unlock_time = IntVal(now), !.is_locked = Bool(FALSE)]

\* the try block of validate_input once client.login is done: the flow's
\* client, what the block returned or raised, the requests made
ValidateTried(logged, o) ==
    IF IsRaise(logged.ret) THEN logged
    ELSE IF ~Truthy(logged.ret) THEN Out(logged.self, Raise("InvalidAuth"), logged.sent, <<>>)
    ELSE Out(logout(logged.self, o[3]).self, None,
             logged.sent \o logout(logged.self, o[3]).sent, <<>>)

\* `except Exception as err: raise CannotConnect from err`, InvalidAuth being
\* an Exception as well
ValidateCaught(tried) ==
    IF IsRaise(tried.ret) THEN [tried EXCEPT !.ret = Raise("CannotConnect")]
    ELSE [tried EXCEPT !.ret = Dict([title |-> Str("Aptus Home")])]

\* validate_input(hass, data); o[1] and o[2] answer the login, o[3] the logout
validate_input(data, o) ==
    ValidateCaught(ValidateTried(login(Client(data), None, None, o), o))

\* async_step_user once validate_input is done
StepValidated(user_input, info) ==
    [info EXCEPT !.ret =
        CASE info.ret = Raise("CannotConnect") ->
                Dict([type |-> Str("form"),
                      errors |-> Dict([base |-> Str("cannot_connect")])])
          [] info.ret = Raise("InvalidAuth") ->
                Dict([type |-> Str("form"),
                      errors |-> Dict([base |-> Str("invalid_auth")])])
          [] IsRaise(info.ret) ->
                Dict([type |-> Str("form"), errors |-> Dict([base |-> Str("unknown")])])
          [] OTHER ->
                Dict([type |-> Str("create_entry"), title |-> info.ret.d.title,
                      data |-> Dict(user_input)])]

\* AptusHomeConfigFlow.async_step_user(user_input), the host not configured yet
async_step_user(user_input, o) ==
    IF user_input = None
    THEN Out(Fresh, Dict([type |-> Str("form"), errors |-> Dict(<<>>)]), <<>>, <<>>)
    ELSE StepValidated(user_input, validate_input(user_input, o))

\* the call c made on the client, the transport answering as o says
Do(self, c, o) ==
    CASE c.op = "async_setup_entry" -> async_setup_entry(c.args[1], o).out
      [] c.op = "async_step_user" -> async_step_user(c.args[1], o)
      [] c.op = "async_unload_entry" -> async_unload_entry(self, c.args[1], o[1]).out
      [] c.op = "login" -> login(self, c.args[1], c.args[2], o)
      [] c.op = "logout" -> logout(self, o[1])
      [] c.op = "list_available_locks" -> list_available_locks(self, o[1])
      [] c.op = "get_doorman_lock_status" -> get_doorman_lock_status(self, o)
      [] c.op = "poll_ongoing_call" -> poll_ongoing_call(self, o[1])
      [] c.op = "unlock_entrance_door" -> unlock_entrance_door(self, c.args[1].n, o)
      [] c.op = "lock_doorman_lock" -> lock_doorman_lock(self, o[1])
      [] c.op = "unlock_doorman_lock" -> unlock_doorman_lock(self, c.args[1], o[1])

\* the answers the portal may give to a request
AnswersTo(req) ==
    CASE req.url = _make_url("Account/Login") ->
            IF req.method = "GET" THEN PageAnswers ELSE PostAnswers
      [] req.url = _make_url("Account/LogOff") -> LogoutAnswers
      [] req.url = _make_url("Lock") -> ListAnswers
      [] req.url = _make_url("Lock/SetLockStatusTempData") -> PrimeAnswers
      [] OTHER -> ApiAnswers

\* The transport answers a request once the call has sent it. o[k] stays
\* Unasked(k) for as long as the call, given the answers before it, has not
\* sent the request that o[k] answers.
Unasked(k) == [t |-> "raise", exc |-> "Unasked", k |-> k]
NoAnswers == [k \in 1..4 |-> Unasked(k)]

RECURSIVE Answers(_, _, _)
AnswersAfter(self, c, o, reqs) ==
    LET pending == {k \in DOMAIN o : \E i \in DOMAIN reqs : reqs[i].answer = Unasked(k)}
        k == CHOOSE n \in pending : \A m \in pending : n <= m
        i == CHOOSE n \in DOMAIN reqs : reqs[n].answer = Unasked(k)
    IN  IF pending = {} THEN {o}
        ELSE UNION {Answers(self, c, [o EXCEPT ![k] = a]) : a \in AnswersTo(reqs[i].req)}

\* the ways the transport may answer the requests of the call c
Answers(self, c, o) == AnswersAfter(self, c, o, Do(self, c, o).sent)

Called(op, args) == Answers(Self, [op |-> op, args |-> args], NoAnswers)

Login ==
    \E u \in Usernames, p \in Passwords :
        \E o \in Called("login", <<u, p>>) :
            Finish("login", <<u, p>>, login(Self, u, p, o))

Logout ==
    \E o \in Called("logout", <<>>) : Finish("logout", <<>>, logout(Self, o[1]))

ListAvailableLocks ==
    \E o \in Called("list_available_locks", <<>>) :
        Finish("list_available_locks", <<>>, list_available_locks(Self, o[1]))

GetDoormanLockStatus ==
    \E o \in Called("get_doorman_lock_status", <<>>) :
        Finish("get_doorman_lock_status", <<>>, get_doorman_lock_status(Self, o))

PollOngoingCall ==
    \E o \in Called("poll_ongoing_call", <<>>) :
        Finish("poll_ongoing_call", <<>>, poll_ongoing_call(Self, o[1]))

UnlockEntranceDoor ==
    \E lock_id \in LockIds :
        \E o \in Called("unlock_entrance_door", <<IntVal(lock_id)>>) :
            Finish("unlock_entrance_door", <<IntVal(lock_id)>>,
                   unlock_entrance_door(Self, lock_id, o))

LockDoormanLock ==
    \E o \in Called("lock_doorman_lock", <<>>) :
        Finish("lock_doorman_lock", <<>>, lock_doorman_lock(Self, o[1]))

UnlockDoormanLock ==
    \E code \in DoormanCodes :
        \E o \in Called("unlock_doorman_lock", <<code>>) :
            Finish("unlock_doorman_lock", <<code>>, unlock_doorman_lock(Self, code, o[1]))

Next ==
    \/ Login
    \/ Logout
    \/ ListAvailableLocks
    \/ GetDoormanLockStatus
    \/ PollOngoingCall
    \/ UnlockEntranceDoor
    \/ LockDoormanLock
    \/ UnlockDoormanLock

Spec == Init /\ [][Next]_vars

-----------------------------------------------------------------------------
(* _encrypt_password on its own: a password and a salt are chosen, the      *)
(* function is applied once, and once more to what it returned              *)

\* code points of "A", e-acute, the euro sign and U+1F600
PasswordChars == {65, 233, 8364, 128512}
EncPasswords == UNION {[1..n -> PasswordChars] : n \in 0..MaxPasswordLen}

\* positive keys K, given to the function as str(K)
PositiveKeys == {1, 611, 65535, 1048576, 1114112}
KeySalts == {Chars(str(K)) : K \in PositiveKeys}
\* strings int() rejects
NonNumericSalts ==
    {Chars(<<"a", "b", "c">>), Chars(<<"1", ".", "5">>),
     Chars(<<"6", "1", "1", "x">>), Chars(<<" ">>)}
\* other strings int() accepts
OtherSalts ==
    {Chars(<<" ", "7", " ">>), Chars(<<"-", "7">>), Chars(<<"1", "_", "0">>),
     Chars(<<"0">>)}
EncSalts == {None, Chars(<<>>)} \cup KeySalts \cup NonNumericSalts \cup OtherSalts

InitEnc ==
    /\ Constructed
    /\ username = None
    /\ \E P \in EncPasswords, s \in EncSalts :
            enc = [stage |-> "input", password_str |-> P, salt_str |-> s]

Unused ==
    UNCHANGED <<username, password, logged_in, request_verification_token,
                password_salt, session_headers, call, net, before, sent,
                returned, result, hass, clock, flow, threads>>

EncryptOnce ==
    /\ enc.stage = "input"
    /\ enc' = [stage |-> "once", password_str |-> enc.password_str,
               salt_str |-> enc.salt_str,
               first |-> _encrypt_password(enc.password_str, enc.salt_str)]
    /\ Unused

EncryptTwice ==
    /\ enc.stage = "once"
    /\ ~IsRaise(enc.first)
    /\ enc' = [stage |-> "twice", password_str |-> enc.password_str,
               salt_str |-> enc.salt_str, first |-> enc.first,
               second |-> _encrypt_password(enc.first.p, enc.salt_str)]
    /\ Unused

NextEnc == EncryptOnce \/ EncryptTwice

SpecEnc == InitEnc /\ [][NextEnc]_vars

-----------------------------------------------------------------------------
(* list_available_locks on its own: a client that has logged in lists the   *)
(* locks of every lock page of up to MaxCards cards                         *)

\* the client after a login that was served page and then the home page
LoggedInVia(page) ==
    login(Fresh, Alice, Secret,
          <<Response(200, LoginUrl, page), Response(200, HomeUrl, PageHome)>>).self

InitScrape ==
    /\ \E page \in {PageA, PageB} :
            /\ username = LoggedInVia(page).username
            /\ password = LoggedInVia(page).password
            /\ logged_in = LoggedInVia(page).logged_in
            /\ request_verification_token = LoggedInVia(page).request_verification_token
            /\ password_salt = LoggedInVia(page).password_salt
            /\ session_headers = LoggedInVia(page).headers
    /\ call = NoCall
    /\ net = <<>>
    /\ sent = <<>>
    /\ returned = <<>>
    /\ result = None
    /\ before = Snapshot
    /\ enc = NoEnc
    /\ hass = NoEntry
    /\ clock = 0
    /\ flow = NoFlow
    /\ threads = NoThreads

\* list_available_locks past its guard, the portal serving a lock page
ScrapeLockPage ==
    \E cards \in LockPages :
        /\ logged_in
        /\ Finish("list_available_locks", <<>>,
                  list_available_locks(Self, LockPage(cards)))

\* the listing of a lock page, or of whatever else the portal may answer
NextScrape == ScrapeLockPage \/ ListAvailableLocks

SpecScrape == InitScrape /\ [][NextScrape]_vars

-----------------------------------------------------------------------------
(* The integration: a config entry is set up and unloaded                   *)

\* entry.data: the credentials of the config entry, possibly empty
EntryData ==
    {[username |-> Alice, password |-> Secret],
     [username |-> Str(""), password |-> Str("")]}

\* the seconds the clock may reach
MaxClock == 6

\* what the transport answers while an entity unlocks: one answer to the
\* first attempt or, when that attempt raises, the answers to the login and
\* to the second attempt
UnlockAnswers ==
    {[NoAnswers EXCEPT ![1] = a] : a \in ApiAnswers \ {OtherException}}
    \cup {<<OtherException, Response(200, LoginUrl, PageA),
            Response(200, HomeUrl, PageHome), b>> :
                b \in {Response(200, HomeUrl, TextOk), Response(500, HomeUrl, TextPage),
                       OtherException}}
    \cup {<<OtherException, Response(200, LoginUrl, PageBigSalt), Unasked(3),
            Unasked(4)>>,
          <<OtherException, Response(200, LoginUrl, PageA),
            Response(200, LoginUrl, PageHome), Unasked(4)>>}

\* unlock_entrance_door made for the entity i, the transport answering as o
Unlocking(i, o) == unlock_entrance_door(Self, hass.entities[i].lock_id.n, o)

InitHass == Constructed /\ username = None /\ enc = NoEnc

AsyncSetupEntry ==
    /\ hass.forwarded = {}
    /\ \E data \in EntryData :
        \E o \in Answers(Self, [op |-> "async_setup_entry", args |-> <<data>>],
                         NoAnswers) :
            /\ Logged("async_setup_entry", <<data>>, async_setup_entry(data, o).out)
            /\ hass' = async_setup_entry(data, o).entry
            /\ UNCHANGED <<enc, clock, flow, threads>>

AsyncUnloadEntry ==
    /\ hass.forwarded # {}
    /\ \E o \in Answers(Self, [op |-> "async_unload_entry", args |-> <<hass>>],
                         NoAnswers) :
            /\ Logged("async_unload_entry", <<>>,
                      async_unload_entry(Self, hass, o[1]).out)
            /\ hass' = async_unload_entry(Self, hass, o[1]).entry
            /\ UNCHANGED <<enc, clock, flow, threads>>

\* the entity i is asked to unlock its door
AsyncUnlock ==
    /\ hass.forwarded # {}
    /\ \E i \in DOMAIN hass.entities :
        \E o \in UnlockAnswers :
            /\ Logged("async_unlock", <<i>>,
                      Out(Unlocking(i, o).self,
                          IF IsRaise(Unlocking(i, o).ret) THEN Unlocking(i, o).ret
                          ELSE None,
                          Unlocking(i, o).sent, Unlocking(i, o).returned))
            /\ hass' = [hass EXCEPT
                            !.entities[i] = async_unlock(@, Unlocking(i, o).ret, clock),
                            !.unlocked = Unlocking(i, o).ret]
            /\ UNCHANGED <<enc, clock, flow, threads>>

\* Home Assistant polls the entity i
AsyncUpdate ==
    /\ hass.forwarded # {}
    /\ \E i \in DOMAIN hass.entities :
            /\ Logged("async_update", <<i>>, Out(Self, None, <<>>, <<>>))
            /\ hass' = [hass EXCEPT !.entities[i] = async_update(@, clock)]
            /\ UNCHANGED <<enc, clock, flow, threads>>

\* a second passes
Tick ==
    /\ clock < MaxClock
    /\ clock' = clock + 1
    /\ UNCHANGED <<username, password, logged_in, request_verification_token,
                   password_salt, session_headers, call, net, before, sent,
                   returned, result, enc, hass, flow, threads>>

NextHass == AsyncSetupEntry \/ AsyncUnloadEntry \/ AsyncUnlock \/ AsyncUpdate \/ Tick

SpecHass == InitHass /\ [][NextHass]_vars

-----------------------------------------------------------------------------
(* The config flow: each step builds a client of its own, so the client's   *)
(* fields are here those of the flow's client after the step                *)

\* what the user submits: nothing yet, or a username and a password
UserInputs == {None} \cup EntryData

InitFlow == Constructed /\ username = None /\ enc = NoEnc

AsyncStepUser ==
    \E user_input \in UserInputs :
        \E o \in Answers(Self, [op |-> "async_step_user", args |-> <<user_input>>],
                         NoAnswers) :
            /\ Logged("async_step_user", <<user_input>>, async_step_user(user_input, o))
            /\ flow' = IF user_input = None THEN NoFlow
                       ELSE [login |-> login(Client(user_input), None, None, o).ret,
                             validated |-> validate_input(user_input, o).ret,
                             step |-> async_step_user(user_input, o).ret]
            /\ UNCHANGED <<enc, hass, clock, threads>>

SpecFlow == InitFlow /\ [][AsyncStepUser]_vars

-----------------------------------------------------------------------------
(* Two threads on one client: Home Assistant runs each call of the client   *)
(* in an executor thread, so the statements of two calls may interleave.    *)
(* list_available_locks is cut at its request (lines 343, 344, 345), login  *)
(* at its two requests. call, sent, net and result describe the last step.  *)

\* the threads once t starts a call: calls that overlap are marked
Started(t) ==
    [u \in Threads |->
        IF u = t
        THEN [threads[t] EXCEPT !.overlapped = \E v \in Threads \ {t} :
                                                    threads[v].pc # "idle"]
        ELSE IF threads[u].pc # "idle" THEN [threads[u] EXCEPT !.overlapped = TRUE]
        ELSE threads[u]]

\* thread t of ths is now at pc, holding original_xrw and ret
At(ths, t, pc, original_xrw, ret) ==
    [ths EXCEPT ![t].pc = pc, ![t].original_xrw = original_xrw, ![t].ret = ret]

\* a step of thread t that leaves r behind
Stepped(op, t, r) ==
    /\ Logged(op, <<t>>, r)
    /\ UNCHANGED <<enc, hass, clock, flow>>

InitThreads == InitScrape

\* lines 340-343: the guard and the pop of the marker
ListPop(t) ==
    /\ threads[t].pc = "idle"
    /\ IF logged_in
       THEN /\ Stepped("list_available_locks.pop", t, Out(Popped(Self), None, <<>>, <<>>))
            /\ threads' = At(Started(t), t, "popped", OriginalXrw(Self), None)
       ELSE /\ Stepped("list_available_locks.pop", t, Out(Self, None, <<>>, <<>>))
            /\ threads' = At(Started(t), t, "idle", "", None)

\* line 344: the request, sent with the session's headers as they are now;
\* an exception ends the call here
ListGet(t) ==
    /\ threads[t].pc = "popped"
    /\ \E o \in ListAnswers :
        /\ Stepped("list_available_locks.get", t, Listed(Self, "", o))
        /\ threads' = IF IsRaise(o) THEN At(threads, t, "idle", "", None)
                      ELSE At(threads, t, "got", threads[t].original_xrw,
                              Listed(Self, "", o).ret)

\* lines 345-366: the marker is put back and the locks are returned
ListRestore(t) ==
    /\ threads[t].pc = "got"
    /\ Stepped("list_available_locks.restore", t,
               Out(IF threads[t].original_xrw # ""
                   THEN [Self EXCEPT !.headers = HeaderSet(Self.headers, XRW,
                                                           threads[t].original_xrw)]
                   ELSE Self,
                   threads[t].ret, <<>>, <<>>))
    /\ threads' = At(threads, t, "idle", "", None)

\* login() up to the page fetch
LoginFetch(t) ==
    /\ threads[t].pc = "idle"
    /\ \E o \in PageAnswers :
        /\ Stepped("login.fetch", t, _get_login_page_details(Self, o))
        /\ threads' = IF _get_login_page_details(Self, o).ret = Bool(TRUE)
                      THEN At(Started(t), t, "fetched", "", None)
                      ELSE At(Started(t), t, "idle", "", None)

\* login() from the check of token and salt on
LoginSubmit(t) ==
    /\ threads[t].pc = "fetched"
    /\ \E o \in PostAnswers :
        /\ Stepped("login.submit", t, LoginFetched(Out(Self, Bool(TRUE), <<>>, <<>>), o))
        /\ threads' = At(threads, t, "idle", "", None)

NextThreads ==
    \E t \in Threads :
        ListPop(t) \/ ListGet(t) \/ ListRestore(t) \/ LoginFetch(t) \/ LoginSubmit(t)

SpecThreads == InitThreads /\ [][NextThreads]_vars

-----------------------------------------------------------------------------
(* Properties of the last call, read off the requests it sent, the answers  *)
(* it got and what it returned                                              *)

AuthenticatedOps ==
    {"poll_ongoing_call", "unlock_entrance_door", "lock_doorman_lock",
     "unlock_doorman_lock", "list_available_locks", "get_doorman_lock_status"}
SentinelOps == {"list_available_locks", "get_doorman_lock_status"}

LoginPageFetches ==
    {i \in DOMAIN sent : sent[i].url = _make_url("Account/Login") /\ sent[i].method = "GET"}
LoginSubmissions ==
    {i \in DOMAIN sent : sent[i].url = _make_url("Account/Login") /\ sent[i].method = "POST"}
UnlockRequests ==
    {i \in DOMAIN sent : sent[i].url = _make_url(UnlockEndpoint(call.args[1].n))}

\* the last call is an unlock_entrance_door whose first attempt met a fault
\* of the transport
UnlockFaulted ==
    call.op = "unlock_entrance_door" /\ sent # <<>> /\ IsRaise(net[1])
ReloginAttempted == LoginPageFetches # {}
\* the submission of the re-login was answered and left the session authenticated
ReloginSucceeded == logged_in /\ \E i \in LoginSubmissions : ~IsRaise(net[i])

\* what an actuator returns for the answer o to its request
Surfaced(o) ==
    IF IsRaise(RequestOutcome(o, TRUE)) THEN RequestOutcome(o, TRUE)
    ELSE DictOrEmpty(RequestOutcome(o, TRUE))

\* C1: an authenticated operation called while the session is unauthenticated
\* sends no request and returns NotLoggedIn (list_available_locks and
\* get_doorman_lock_status: None); the session stays unauthenticated.
C1_UnauthenticatedGuard ==
    (call.op \in AuthenticatedOps /\ ~before.logged_in) =>
        /\ sent = <<>>
        /\ net = <<>>
        /\ result = IF call.op \in SentinelOps THEN None ELSE NotLoggedIn
        /\ ~logged_in

\* an entrance unlock refused on a session that a failed login left
\* unauthenticated, with the token of that login still stored
C1_Witness ==
    /\ call.op = "unlock_entrance_door"
    /\ ~before.logged_in
    /\ before.request_verification_token # None
    /\ result = NotLoggedIn

\* C2: when the first attempt of unlock_entrance_door meets a fault of the
\* transport, a re-login is made, and when the re-login succeeds a second
\* request for the same lock is sent and its outcome is what the call returns.
C2_RetryAfterFault ==
    UnlockFaulted =>
        /\ ReloginAttempted
        /\ ReloginSucceeded =>
            /\ Cardinality(UnlockRequests) = 2
            /\ Len(sent) \in UnlockRequests
            /\ result = Surfaced(net[Len(net)])

\* a connection error on the first attempt is returned as an outcome: no
\* re-login, no second request
C2_Witness ==
    /\ UnlockFaulted
    /\ net[1] = ConnectionError
    /\ Len(sent) = 1
    /\ result = Dict([error |-> Str("RequestException"),
                      message |-> Str("ConnectionError")])

\* C3: when the first attempt of unlock_entrance_door meets a fault of the
\* transport and the re-login fails, the call returns the outcome of that
\* fault and sends no second unlock request.
C3_ReloginFailed ==
    (UnlockFaulted /\ ReloginAttempted /\ ~ReloginSucceeded) =>
        /\ Cardinality(UnlockRequests) = 1
        /\ result = RequestOutcome(net[1], TRUE)

\* the re-login failed at its page fetch, and a second unlock request is sent
C3_Witness ==
    /\ UnlockFaulted
    /\ ReloginAttempted
    /\ LoginSubmissions = {}
    /\ Cardinality(UnlockRequests) = 2

\* C4: one unlock_entrance_door makes at most one re-login and at most two
\* unlock requests; no other operation makes a login request or sends a
\* request twice.
C4_AtMostOneRetry ==
    /\ call.op = "unlock_entrance_door" =>
        /\ Cardinality(LoginPageFetches) <= 1
        /\ Cardinality(LoginSubmissions) <= 1
        /\ Cardinality(UnlockRequests) <= 2
        /\ DOMAIN sent = LoginPageFetches \cup LoginSubmissions \cup UnlockRequests
    /\ call.op \in (AuthenticatedOps \cup {"logout"}) \ {"unlock_entrance_door"} =>
        /\ LoginPageFetches = {}
        /\ LoginSubmissions = {}
        /\ \A i, j \in DOMAIN sent : sent[i].url = sent[j].url => i = j

\* an unlock that made its one re-login and its second request
C4_Witness ==
    /\ call.op = "unlock_entrance_door"
    /\ Cardinality(LoginSubmissions) = 1
    /\ Cardinality(UnlockRequests) = 2

\* every fault the transport raised during the last call is one of
\* requests.exceptions
RequestFaultsOnly ==
    \A i \in DOMAIN net : IsRaise(net[i]) => IsRequestException(net[i].exc)

\* C5: no public operation lets a fault of the network, of the parsing or of
\* the protocol out as an exception: every call returns a value.
C5_NoFaultEscapes == RequestFaultsOnly => ~IsRaise(result)

\* a connection error during the lock listing leaves list_available_locks as
\* an exception
C5_Witness ==
    /\ call.op = "list_available_locks"
    /\ net = <<ConnectionError>>
    /\ result = ConnectionError

\* the answer a to the login-page fetch is a fault of requests, an HTTP error
\* or a page without a token value
PageFetchFails(a) ==
    \/ IsRaise(a) /\ IsRequestException(a.exc)
    \/ ~IsRaise(a) /\ IsHTTPError(a)
    \/ /\ ~IsRaise(a)
       /\ LET token_input == FindInput(BeautifulSoup(a.text),
                                       [name |-> "__RequestVerificationToken"])
          IN  token_input = None \/ ~Truthy(token_input.value)

C7_SelfInverse ==
    (enc.stage \in {"once", "twice"} /\ enc.salt_str \in KeySalts) =>
        /\ ~IsRaise(enc.first)
        /\ enc.stage = "twice" =>
            /\ ~IsRaise(enc.second)
            /\ enc.second = Codes(enc.password_str)

\* "A" under the key 1114112 leaves the range of chr
C7_Witness ==
    /\ enc.stage = "once"
    /\ enc.password_str = <<65>>
    /\ enc.salt_str = Chars(str(1114112))
    /\ enc.first = Raise("ValueError")

FallbackSalts == {None, Chars(<<>>)} \cup NonNumericSalts

\* C8: with the salt None, "" or a string that is no number,
\* _encrypt_password returns what it returns for the salt "611": every code
\* point XORed with 611, in order.
C8_SaltFallback ==
    (enc.stage \in {"once", "twice"} /\ enc.salt_str \in FallbackSalts) =>
        /\ enc.first = _encrypt_password(enc.password_str, Chars(<<"6", "1", "1">>))
        /\ enc.first = Codes([i \in 1..Len(enc.password_str) |->
                                 Xor(611, enc.password_str[i])])

\* "A" and U+1F600 under the salt "abc"
C8_Witness ==
    /\ enc.stage = "once"
    /\ enc.password_str = <<65, 128512>>
    /\ enc.salt_str = Chars(<<"a", "b", "c">>)
    /\ enc.first = Codes(<<546, 128099>>)

\* the _request r sent its request and got a 2xx response whose body is no JSON
UndecodableBody(r) ==
    /\ r.sent # <<>>
    /\ ~IsRaise(r.sent[1].answer)
    /\ r.sent[1].answer.status_code \in 200..299
    /\ IsRaise(json(r.sent[1].answer.text))

\* C9: a 2xx response whose body is no JSON makes _request return, with
\* expect_json, the JSONDecodeError outcome that carries the body, and
\* without expect_json the body itself; it does not raise.
C9_DecodeFallback ==
    \A i \in DOMAIN returned :
        UndecodableBody(returned[i]) =>
            returned[i].ret =
                IF returned[i].expect_json
                THEN Dict([raw_text |-> returned[i].sent[1].answer.text,
                           error |-> Str("JSONDecodeError")])
                ELSE returned[i].sent[1].answer.text

\* a doorman status query whose priming request (no JSON expected) and status
\* request (JSON expected) were both answered 200 with a page of markup
C9_Witness ==
    /\ call.op = "get_doorman_lock_status"
    /\ Len(returned) = 2
    /\ UndecodableBody(returned[1]) /\ ~returned[1].expect_json
    /\ UndecodableBody(returned[2]) /\ returned[2].expect_json
    /\ returned[1].ret = TextPage
    /\ result = Dict([raw_text |-> TextPage, error |-> Str("JSONDecodeError")])

\* the id of card starts with the entrance prefix and ends in a number
IsEntranceCard(card) ==
    /\ card.id # None
    /\ StartsWith(card.id.c, EntrancePrefix)
    /\ ~IsRaise(int(LastSegment(card.id.c, "_")))

\* the entrance cards among the lock cards of a page, in document order
EntranceCards(text) ==
    SelectSeq(SelectSeq(BeautifulSoup(text).divs, LAMBDA d : "lockCard" \in d.class),
              IsEntranceCard)

\* C10: on an authenticated session, list_available_locks returns one record
\* for each lock card whose id starts with the entrance prefix and ends in a
\* number, in document order, and nothing else; a page without such a card
\* gives the empty list.
C10_EntranceCardsListed ==
    (call.op = "list_available_locks" /\ sent # <<>> /\ ~IsRaise(net[1])
        /\ ~IsHTTPError(net[1])) =>
        /\ result.t = "list"
        /\ Len(result.l) = Len(EntranceCards(net[1].text))
        /\ \A i \in 1..Len(result.l) :
            /\ result.l[i].d.raw_id_attr = EntranceCards(net[1].text)[i].id
            /\ result.l[i].d.id = int(LastSegment(EntranceCards(net[1].text)[i].id.c, "_"))

\* an entrance card without the inner div ends the listing with an exception,
\* whatever card comes before it
C10_Witness ==
    /\ call.op = "list_available_locks"
    /\ net = <<LockPage(<<CardMain, CardBare>>)>>
    /\ result = Raise("AttributeError")

\* C11: after logout, whatever the log-off request met, the session is
\* unauthenticated and the token and the salt are cleared; logout returns the
\* text of a 2xx response and None otherwise, and does not raise.
C11_LogoutClears ==
    call.op = "logout" =>
        /\ Len(sent) = 1
        /\ ~logged_in
        /\ request_verification_token = None
        /\ password_salt = None
        /\ result = IF ~IsRaise(net[1]) /\ net[1].status_code \in 200..299
                    THEN net[1].text ELSE None

\* a logout of an authenticated session whose request ran into a redirect loop
C11_Witness ==
    /\ call.op = "logout"
    /\ before.logged_in
    /\ before.request_verification_token # None
    /\ net = <<TooManyRedirects>>
    /\ ~logged_in
    /\ request_verification_token = None
    /\ result = None

\* the portal answered a with its login page: it no longer accepts the session
InvalidSession(a) == ~IsRaise(a) /\ Contains(a.url, LoginPath)

\* the requests of the last call that are no login requests
SessionRequests == DOMAIN sent \ (LoginPageFetches \cup LoginSubmissions)

\* C12: when a request of an authenticated operation is answered with an
\* invalid-session response, the session is unauthenticated afterwards.
C12_InvalidSessionResets ==
    (call.op \in AuthenticatedOps /\ before.logged_in
        /\ \E i \in SessionRequests : InvalidSession(net[i])) =>
        ~logged_in

\* poll_ongoing_call was served the login page and the session still counts
\* as authenticated
C12_Witness ==
    /\ call.op = "poll_ongoing_call"
    /\ before.logged_in
    /\ net = <<Response(200, LoginUrl, PageA)>>
    /\ logged_in
    /\ result = Dict([raw_text |-> PageA, error |-> Str("JSONDecodeError")])

\* C13: the session turns from unauthenticated to authenticated only in a
\* login that fetched the login page, sent the submission and returns true.
C13_OnlyLoginAuthenticates ==
    (~before.logged_in /\ logged_in) =>
        /\ call.op = "login"
        /\ result = Bool(TRUE)
        /\ Len(sent) = 2
        /\ LoginPageFetches = {1}
        /\ LoginSubmissions = {2}

\* a login that authenticated a session
C13_Witness ==
    /\ call.op = "login"
    /\ ~before.logged_in
    /\ logged_in
    /\ result = Bool(TRUE)
    /\ Len(sent) = 2

\* C14: a login on an authenticated session that fails leaves the session
\* unauthenticated.
C14_FailedLoginUnauthenticates ==
    (call.op = "login" /\ before.logged_in /\ result = Bool(FALSE)) => ~logged_in

\* a login on an authenticated session whose page fetch was answered 500:
\* it returns false and the session still counts as authenticated
C14_Witness ==
    /\ call.op = "login"
    /\ before.logged_in
    /\ net = <<Response(500, HomeUrl, TextPage)>>
    /\ result = Bool(FALSE)
    /\ logged_in

\* C15: async_setup_entry raises ConfigEntryNotReady whenever the client's
\* login returned false or raised, and then stores no runtime data and sets
\* up no platform; the lock platform is forwarded only after a login that
\* returned true.
C15_SetupNotReady ==
    call.op = "async_setup_entry" =>
        /\ hass.login = Bool(TRUE) <=> logged_in
        /\ hass.login # Bool(TRUE) =>
            /\ result = Raise("ConfigEntryNotReady")
            /\ hass.setup = Raise("ConfigEntryNotReady")
            /\ hass.runtime_data = None
            /\ hass.forwarded = {}
            /\ hass.entities = <<>>
            /\ \A i \in DOMAIN sent : sent[i].url = _make_url("Account/Login")
        /\ hass.forwarded # {} =>
            /\ hass.login = Bool(TRUE)
            /\ hass.runtime_data # None
            /\ result = Bool(TRUE)

\* a setup whose login raised ValueError on the salt the portal served
C15_Witness ==
    /\ call.op = "async_setup_entry"
    /\ hass.login = Raise("ValueError")
    /\ net = <<Response(200, LoginUrl, PageBigSalt)>>
    /\ result = Raise("ConfigEntryNotReady")
    /\ hass.runtime_data = None

\* C16: list_available_locks restores the AJAX marker on every exit path: a
\* marker that was in the session's default headers when the call started is
\* there again, with the same value, when the call has ended, whatever the
\* listing request did.
C16_MarkerRestored ==
    (call.op = "list_available_locks" /\ XRW \in DOMAIN before.headers) =>
        /\ XRW \in DOMAIN session_headers
        /\ session_headers[XRW] = before.headers[XRW]

\* a listing on a logged-in client whose request faulted: the call has ended
\* by raising and the session's default headers have lost the marker
C16_Witness ==
    /\ call.op = "list_available_locks"
    /\ before.logged_in
    /\ XRW \in DOMAIN before.headers
    /\ Len(sent) = 1
    /\ IsRaise(net[1])
    /\ result = net[1]
    /\ XRW \notin DOMAIN sent[1].headers
    /\ XRW \notin DOMAIN session_headers

\* C17: _request sends every call with the AJAX marker set on a per-call copy
\* of the headers and leaves the session's default headers as they were:
\* after a method that only makes _request calls the default headers equal
\* what they were before the call, whatever the outcome, and each request it
\* sent carries the marker (an unlock that re-logged in differs from before
\* by what that login attached, and by nothing else).
C17_RequestKeepsDefaults ==
    call.op \in (AuthenticatedOps \cup {"set_lock_status_temp_data"})
                    \ {"list_available_locks"} =>
        /\ \A i \in SessionRequests :
            /\ XRW \in DOMAIN sent[i].headers
            /\ sent[i].headers[XRW] = XMLHttpRequest
        /\ \A i \in DOMAIN returned : returned[i].headers \in
                {before.headers, HeaderSet(before.headers, XRW, XMLHttpRequest)}
        /\ session_headers =
            IF ReloginAttempted /\ ReloginSucceeded
            THEN HeaderSet(before.headers, XRW, XMLHttpRequest)
            ELSE before.headers

\* a _request on an authenticated session whose default headers hold no
\* marker: the request went out with the marker and the defaults still hold
\* none
C17_Witness ==
    /\ call.op = "lock_doorman_lock"
    /\ before.logged_in
    /\ XRW \notin DOMAIN before.headers
    /\ Len(sent) = 1
    /\ sent[1].headers[XRW] = XMLHttpRequest
    /\ XRW \notin DOMAIN session_headers
    /\ Len(returned) = 1

\* C18: every login submission is sent without the AJAX marker header, a
\* re-login made after an earlier login attached the marker to the session's
\* default headers included; the headers sent are the session's defaults
\* merged with those of the call.
C18_SubmissionUnmarked ==
    \A i \in LoginSubmissions : XRW \notin DOMAIN sent[i].headers

\* a second login on a session whose defaults hold the marker: the
\* submission went out with it
C18_Witness ==
    /\ call.op = "login"
    /\ before.logged_in
    /\ XRW \in DOMAIN before.headers
    /\ Len(sent) = 2
    /\ 2 \in LoginSubmissions
    /\ XRW \in DOMAIN sent[2].headers
    /\ sent[2].headers[XRW] = XMLHttpRequest
    /\ sent[2].headers["Referer"] = _make_url("Account/Login")

\* C19: when the submission of a login() completes with a 2xx status,
\* login() returns true if and only if the final URL does not contain the
\* login path and the body contains one of the success markers; exactly when
\* it returns true it marks the session authenticated and attaches the AJAX
\* marker to the session's default headers.
C19_LoginDecision ==
    (/\ call.op = "login"
     /\ LoginSubmissions # {}
     /\ \A i \in LoginSubmissions :
            /\ ~IsRaise(net[i])
            /\ 200 <= net[i].status_code /\ net[i].status_code < 300) =>
        /\ result \in {Bool(TRUE), Bool(FALSE)}
        /\ result = Bool(TRUE) <=>
            \A i \in LoginSubmissions :
                /\ ~Contains(net[i].url, LoginPath)
                /\ \E marker \in LoginMarkers :
                       Contains(BeautifulSoup(net[i].text).words, marker)
        /\ result = Bool(TRUE) <=> logged_in
        /\ session_headers =
            IF result = Bool(TRUE)
            THEN HeaderSet(before.headers, XRW, XMLHttpRequest)
            ELSE before.headers

\* a submission answered 200 with a success marker in the body but on the
\* login path: login returned false and left the session unauthenticated
C19_Witness ==
    /\ call.op = "login"
    /\ Len(net) = 2
    /\ net[2] = Response(200, LoginUrl, PageHome)
    /\ result = Bool(FALSE)
    /\ ~logged_in
    /\ XRW \notin DOMAIN session_headers

\* the token and the salt _get_login_page_details takes from the page a
\* (the salt "611" when the page has none)
PageToken(a) ==
    FindInput(BeautifulSoup(a.text), [name |-> "__RequestVerificationToken"]).value
PageSalt(a) ==
    LET salt_input == FindInput(BeautifulSoup(a.text),
                                [id |-> "PasswordSalt", name |-> "PasswordSalt"])
    IN  IF salt_input # None /\ Truthy(salt_input.value) THEN salt_input.value
        ELSE Chars(DefaultSalt)

\* C20: every login submission carries the anti-forgery token and the salt
\* taken from the login page fetched just before it in the same login(); after
\* a fetch that failed nothing is submitted, so a token of an earlier login()
\* is never sent again.
C20_FreshToken ==
    /\ \A i \in LoginSubmissions :
        /\ i - 1 \in LoginPageFetches
        /\ ~PageFetchFails(net[i - 1])
        /\ ~IsRaise(net[i - 1])
        /\ sent[i].data.d.__RequestVerificationToken = PageToken(net[i - 1])
        /\ sent[i].data.d.PasswordSalt = PageSalt(net[i - 1])
    /\ \A i \in LoginPageFetches :
        (PageFetchFails(net[i]) \/ IsRaise(net[i])) => i + 1 \notin LoginSubmissions

\* a login on a client that holds the token and salt of an earlier login:
\* the page fetched now has another token and no salt, and those are submitted
C20_Witness ==
    /\ call.op = "login"
    /\ before.request_verification_token = Str("tokA")
    /\ before.password_salt = Chars(<<"7">>)
    /\ Len(sent) = 2
    /\ net[1] = Response(200, LoginUrl, PageB)
    /\ sent[2].data.d.__RequestVerificationToken = Str("tokB")
    /\ sent[2].data.d.PasswordSalt = Chars(DefaultSalt)

C22_EmptyCredentials ==
    (call.op = "login" /\ (~Truthy(username) \/ ~Truthy(password))) =>
        /\ result = Bool(FALSE)
        /\ sent = <<>>
        /\ net = <<>>
        /\ logged_in = before.logged_in
        /\ request_verification_token = before.request_verification_token
        /\ password_salt = before.password_salt
        /\ session_headers = before.headers

\* login("alice") on a client built without credentials: the username is
\* stored, no password is, and the call returned false without a request
C22_Witness ==
    /\ call = [op |-> "login", args |-> <<Alice, None>>]
    /\ username = Alice
    /\ password = None
    /\ result = Bool(FALSE)
    /\ sent = <<>>
    /\ request_verification_token = None

\* the _request r got a non-2xx response whose body is no JSON object
UndecodableError(r) ==
    /\ r.sent # <<>>
    /\ ~IsRaise(r.sent[1].answer)
    /\ IsHTTPError(r.sent[1].answer)
    /\ IsRaise(json(r.sent[1].answer.text)) \/ ~IsDict(json(r.sent[1].answer.text))

\* C23: a non-2xx response whose body cannot be decoded makes _request return
\* the generic HTTPError outcome carrying the raw body and the status code of
\* that response, neither of them null.
C23_ErrorCarriesBody ==
    \A i \in DOMAIN returned :
        UndecodableError(returned[i]) =>
            /\ IsDict(returned[i].ret)
            /\ returned[i].ret.d.error = Str("HTTPError")
            /\ returned[i].ret.d.raw_response = returned[i].sent[1].answer.text
            /\ returned[i].ret.d.http_code =
                    IntVal(returned[i].sent[1].answer.status_code)

\* poll_ongoing_call answered 500 with markup: the outcome returned has
\* neither the body nor the status code
C23_Witness ==
    /\ call.op = "poll_ongoing_call"
    /\ net = <<Response(500, HomeUrl, TextPage)>>
    /\ Len(returned) = 1
    /\ UndecodableError(returned[1])
    /\ result.d.error = Str("HTTPError")
    /\ result.d.raw_response = None
    /\ result.d.http_code = None

\* C24: the pop of the AJAX marker and the listing request are two steps. A
\* listing request of a call that no other call on the client overlaps is
\* sent with the marker absent from the session's default headers; when a
\* request does go out with the marker, another call (a listing or a login)
\* ran between the statements of this one.
C24_ListingNotAtomic ==
    (call.op = "list_available_locks.get") =>
        /\ Len(sent) = 1
        /\ sent[1].headers = before.headers
        /\ ~threads[call.args[1]].overlapped => XRW \notin DOMAIN sent[1].headers
        /\ XRW \in DOMAIN sent[1].headers => threads[call.args[1]].overlapped

\* thread 1 popped the marker, thread 2 logged in and put it back, and the
\* listing request of thread 1 went out with the marker in the session's
\* default headers
C24_Witness ==
    /\ call = [op |-> "list_available_locks.get", args |-> <<1>>]
    /\ threads[1].overlapped
    /\ threads[2].pc = "idle"
    /\ XRW \in DOMAIN before.headers
    /\ XRW \in DOMAIN sent[1].headers
    /\ sent[1].url = _make_url("Lock")
    /\ ~IsRaise(net[1])
    /\ threads[1].original_xrw = XMLHttpRequest

\* the outcome o of unlock_entrance_door carries an error
CarriesError(o) == IsDict(o) /\ Truthy(Get(o, "error", None))

\* C25: when unlock_entrance_door returns an outcome that carries an error,
\* async_unlock leaves the entity's locked state and unlock time as they
\* were and does not raise; an entity gets an unlock time, and with it
\* becomes unlocked, only in an async_unlock whose outcome carries no error.
C25_ErrorLeavesEntity ==
    [][/\ (call'.op = "async_unlock" /\ CarriesError(hass'.unlocked)) =>
            /\ hass'.entities = hass.entities
            /\ result' = None
       /\ \A i \in DOMAIN hass.entities \cap DOMAIN hass'.entities :
            /\ (hass.entities[i].unlock_time = None
                    /\ hass'.entities[i].unlock_time # None) =>
                /\ call' = [op |-> "async_unlock", args |-> <<i>>]
                /\ IsDict(hass'.unlocked)
                /\ ~CarriesError(hass'.unlocked)
                /\ hass'.entities[i].is_locked = Bool(FALSE)
            /\ (hass.entities[i].is_locked # Bool(FALSE)
                    /\ hass'.entities[i].is_locked = Bool(FALSE)) =>
                hass'.entities[i].unlock_time # None]_vars

\* a locked entity was asked to unlock, the portal answered 500 with markup:
\* the call returned and the entity is still locked, without unlock time
C25_Witness ==
    /\ call = [op |-> "async_unlock", args |-> <<1>>]
    /\ net = <<Response(500, HomeUrl, TextPage)>>
    /\ hass.unlocked.d.error = Str("HTTPError")
    /\ result = None
    /\ hass.entities[1].is_locked = Bool(TRUE)
    /\ hass.entities[1].unlock_time = None

\* the errors the form shown by the last step of the flow carries
FlowErrors == IF result.d.type = Str("form") THEN result.d.errors ELSE Dict(<<>>)

\* C26: in the config flow, when the client's login returns false the step
\* reports invalid_auth; it reports cannot_connect only when login or logout
\* raised.
C26_InvalidAuthReported ==
    (call.op = "async_step_user" /\ flow # NoFlow) =>
        /\ flow.login = Bool(FALSE) =>
                FlowErrors = Dict([base |-> Str("invalid_auth")])
        /\ FlowErrors = Dict([base |-> Str("cannot_connect")]) => IsRaise(flow.login)

\* the portal re-rendered the login form for the submitted credentials:
\* login returned false and the step shows cannot_connect
C26_Witness ==
    /\ call.op = "async_step_user"
    /\ Len(net) = 2
    /\ net[2] = Response(200, LoginUrl, PageHome)
    /\ flow.login = Bool(FALSE)
    /\ flow.validated = Raise("CannotConnect")
    /\ result = Dict([type |-> Str("form"),
                      errors |-> Dict([base |-> Str("cannot_connect")])])

\* C27: after any sequence of completed operations of the client, an
\* authenticated session holds a non-empty anti-forgery token and a non-empty
\* salt, and the token is unset exactly when the salt is unset.
C27_TokenAndSalt ==
    /\ logged_in => Truthy(request_verification_token) /\ Truthy(password_salt)
    /\ request_verification_token = None <=> password_salt = None

\* an authenticated session that holds the token of its login page and the
\* fallback salt, after a lock listing that faulted
C27_Witness ==
    /\ call.op = "list_available_locks"
    /\ IsRaise(result)
    /\ logged_in
    /\ request_verification_token = Str("tokB")
    /\ password_salt = Chars(DefaultSalt)

\* C28: after any sequence of completed operations of the client, faults
\* included, an authenticated session has the AJAX marker in its default
\* headers.
C28_AuthenticatedMarked == logged_in => XRW \in DOMAIN session_headers

\* an authenticated session without the marker makes a call: the session is
\* still authenticated and its default headers still hold no marker
C28_Witness ==
    /\ call.op = "poll_ongoing_call"
    /\ before.logged_in
    /\ XRW \notin DOMAIN before.headers
    /\ Len(sent) = 1
    /\ logged_in
    /\ XRW \notin DOMAIN session_headers

====
